---------------------------- MODULE Spec2Model ----------------------------
(***************************************************************************)
(* Model of files/DensityEstimation/LaplaceApproximation.ipynb: the Newton *)
(* mode finder findMode, the precision evaluator getHessian and the cell   *)
(* that builds the Laplace (Gaussian) approximation from them.             *)
(*                                                                         *)
(* Numbers.  The notebook computes in IEEE doubles.  Here a real r is the  *)
(* integer round(r * One) (fixed point, One units per 1.0), every division *)
(* rounds to nearest, and DMax stands for np.finfo('d').max, the largest   *)
(* finite value: a sum that leaves [-DMax, DMax] is absorbed at the end of *)
(* the range, as DBL_MAX + 20 rounds back to DBL_MAX.  np.exp is computed  *)
(* by range reduction and a Taylor series, overflowing to ExpInf and       *)
(* underflowing to 0 as the double does.                                   *)
(***************************************************************************)
EXTENDS Integers, Sequences, FiniteSets, TLC

VARIABLES z_init, max_iter, tol, iter, z_cur, z_next, y, der_y, pc, z0, A,
          q_z, hist

\* two calls running side by side: their arguments, the frames that hold their
\* locals, their control points, their results and the steps each has taken
VARIABLES cargs, frames, cpc, cres, csteps

\* the notebook's own run
svars == <<z_init, max_iter, tol, iter, z_cur, z_next, y, der_y, pc, z0, A,
           q_z, hist>>

\* the two calls
cvars == <<cargs, frames, cpc, cres, csteps>>

vars == <<z_init, max_iter, tol, iter, z_cur, z_next, y, der_y, pc, z0, A,
          q_z, hist, cargs, frames, cpc, cres, csteps>>

-----------------------------------------------------------------------------
(* Fixed-point arithmetic *)

\* the double 1.0
One == 1000

\* np.finfo('d').max, the largest finite double
DMax == 1000000

\* largest max_iter the callers of the model pass, besides the default
MaxIter == 4

\* default of the max_iter parameter
DefaultMaxIter == 25

Abs(v) == IF v < 0 THEN -v ELSE v

\* a / b rounded to nearest, b > 0
RDiv(a, b) == (a + b \div 2) \div b

\* a sum beyond the largest finite value is absorbed by it
Sat(v) == IF v > DMax THEN DMax ELSE IF v < -DMax THEN -DMax ELSE v

\* e^0 .. e^7
EPow == <<1000, 2718, 7389, 20086, 54598, 148413, 403429, 1096633>>

\* above this argument 1 + e^t is 1/0 to the precision of One
ExpHi == Len(EPow) * One

\* e^t once it has outgrown every finite value that matters: the double's inf
ExpInf == One * One * One

\* e^f for 0 <= f < One, by its Taylor series
ExpFrac(f) ==
    LET t1 == f
        t2 == RDiv(t1 * f, 2 * One)
        t3 == RDiv(t2 * f, 3 * One)
        t4 == RDiv(t3 * f, 4 * One)
        t5 == RDiv(t4 * f, 5 * One)
        t6 == RDiv(t5 * f, 6 * One)
    IN  One + t1 + t2 + t3 + t4 + t5 + t6

\* e^t for 0 <= t < ExpHi
ExpPos(t) ==
    LET e == EPow[(t \div One) + 1]
    IN  e + (e * (ExpFrac(t % One) - One)) \div One

\* np.exp
Exp(t) ==
    IF t >= ExpHi THEN ExpInf
    ELSE IF t <= -ExpHi THEN 0
    ELSE IF t >= 0 THEN ExpPos(t)
    ELSE RDiv(One * One, ExpPos(-t))

\* def sigmoid(x): den = 1.0+np.exp(-x); return 1.0/den
sigmoid(x) ==
    LET den == One + Exp(-x)
    IN  RDiv(One * One, den)


-----------------------------------------------------------------------------
(* findMode *)

\* the arguments the callers of the model pass
ZInits == {-DMax, -One, -300, -200, 0, 78, DMax \div 2, DMax}
MaxIters == (0 .. MaxIter) \cup {DefaultMaxIter}
Tols == {1, 3, 50, (3 * DMax) \div 4, DMax}

\* the default tol = 1E-6, at the resolution of the model: its smallest step
DefaultTol == 1

\* z_next starts at the lowest finite value, np.finfo('d').min
InitialZNextMin == -DMax

\* z_next = np.finfo('d').max
InitialZNext == DMax

\* the loop test without the iteration cap
LoopGuardNoCap(i, m, zn, zc, t) == Abs(zn - zc) > t

\* the cap is tested with <= instead of <
LoopGuardOffByOne(i, m, zn, zc, t) == i <= m /\ Abs(zn - zc) > t

\* the two tests are joined by or instead of and
LoopGuardOr(i, m, zn, zc, t) == i < m \/ Abs(zn - zc) > t

\* while (iter < max_iter and np.abs(z_next-z_cur) > tol)
LoopGuard(i, m, zn, zc, t) == i < m /\ Abs(zn - zc) > t

\* the iterate is advanced one pass late
CurAtLate(i, zc, zn) == IF i > 1 THEN zn ELSE zc

\* if iter > 0: z_cur = z_next
CurAt(i, zc, zn) == IF i > 0 THEN zn ELSE zc

\* the offset 4 of the sigmoid's argument is left out
YNoOffset(z) == Sat(z - 20 * (One - sigmoid(20 * z)))

\* y = z_cur - 20*(1-sigmoid(20*z_cur+4))
Y(z) == Sat(z - 20 * (One - sigmoid(20 * z + 4 * One)))

\* the factor 400 is mistyped as 40
DerY40(z) ==
    One + RDiv(40 * sigmoid(20 * z + 4 * One) * (One - sigmoid(20 * z + 4 * One)), One)

\* der_y = 1 + 400*sigmoid(20*z_cur+4)*(1-sigmoid(20*z_cur+4))
DerY(z) ==
    One + RDiv(400 * sigmoid(20 * z + 4 * One) * (One - sigmoid(20 * z + 4 * One)), One)

\* the step is taken the wrong way
NewtonUpdatePlus(z, yv, d) == Sat(z + RDiv(yv * One, d))

\* z_next = z_cur - y/der_y
NewtonUpdate(z, yv, d) == Sat(z - RDiv(yv * One, d))

\* the iterate before the last is handed back
ReturnValueCur(zc, zn) == zc

\* the value findMode hands back: return z_next
ReturnValue(zc, zn) == zn

\* findMode(z_init, max_iter, tol) is called: iter, z_next and z_cur are set
FindModeEnter ==
    /\ pc = "call"
    /\ iter' = 0
    /\ z_next' = InitialZNext
    /\ z_cur' = z_init
    /\ pc' = "while"
    /\ UNCHANGED <<z_init, max_iter, tol, y, der_y, z0, A, q_z, hist>>

\* one pass of the while loop: the test holds and the body runs
LoopBody ==
    /\ pc = "while"
    /\ LoopGuard(iter, max_iter, z_next, z_cur, tol)
    /\ z_cur' = CurAt(iter, z_cur, z_next)
    /\ y' = Y(z_cur')
    /\ der_y' = DerY(z_cur')
    /\ z_next' = NewtonUpdate(z_cur', y', der_y')
    /\ iter' = iter + 1
    /\ hist' = Append(hist, z_next')
    /\ UNCHANGED <<z_init, max_iter, tol, pc, z0, A, q_z>>

\* the test fails: return z_next, which the caller binds to z0
FindModeReturn ==
    /\ pc = "while"
    /\ ~LoopGuard(iter, max_iter, z_next, z_cur, tol)
    /\ z0' = ReturnValue(z_cur, z_next)
    /\ pc' = "returned"
    /\ UNCHANGED <<z_init, max_iter, tol, iter, z_cur, z_next, y, der_y, A, q_z, hist>>

-----------------------------------------------------------------------------
(* getHessian and the approximation *)

\* the constant term of the precision is left out
getHessianNoOne(z) ==
    LET sig_x == sigmoid(20 * z + 4 * One)
    IN  RDiv(400 * sig_x * (One - sig_x), One)

\* def getHessian(z): sig_x = sigmoid(20*z+4); return 400*sig_x*(1-sig_x) + 1
getHessian(z) ==
    LET sig_x == sigmoid(20 * z + 4 * One)
    IN  RDiv(400 * sig_x * (One - sig_x), One) + One

RECURSIVE SqrtIn(_, _, _)
\* the largest r in lo..hi with r * r <= v
SqrtIn(v, lo, hi) ==
    IF lo >= hi THEN lo
    ELSE LET mid == (lo + hi + 1) \div 2
         IN  IF mid * mid <= v THEN SqrtIn(v, mid, hi) ELSE SqrtIn(v, lo, mid - 1)

\* np.sqrt of a value in 0 .. 1600.0
Sqrt(v) == SqrtIn(v * One, 0, 40 * One)

\* the precision itself is passed as the scale
StdDevNoSqrt(a) == RDiv(One * One, a)

\* 1/np.sqrt(A)
StdDev(a) == RDiv(One * One, Sqrt(a))

\* the precision is evaluated at the initial guess instead of the mode
EvalHessianAtGuess ==
    /\ pc = "returned"
    /\ A' = getHessian(z_init)
    /\ pc' = "hessian"
    /\ UNCHANGED <<z_init, max_iter, tol, iter, z_cur, z_next, y, der_y, z0, q_z, hist>>

\* the curvature is evaluated inside the loop as well, at the current iterate
EvalHessianInLoop ==
    /\ pc \in {"while", "returned"}
    /\ A' = getHessian(IF pc = "while" THEN z_next ELSE z0)
    /\ pc' = IF pc = "while" THEN "while" ELSE "hessian"
    /\ UNCHANGED <<z_init, max_iter, tol, iter, z_cur, z_next, y, der_y, z0, q_z, hist>>

\* A = getHessian(z0)
EvalHessian ==
    /\ pc = "returned"
    /\ A' = getHessian(z0)
    /\ pc' = "hessian"
    /\ UNCHANGED <<z_init, max_iter, tol, iter, z_cur, z_next, y, der_y, z0, q_z, hist>>

\* q_z = norm.pdf(z, z0, 1/np.sqrt(A)): the Gaussian's mean and deviation
Approximate ==
    /\ pc = "hessian"
    /\ q_z' = [mean |-> z0, std |-> StdDev(A)]
    /\ pc' = "approx"
    /\ UNCHANGED <<z_init, max_iter, tol, iter, z_cur, z_next, y, der_y, z0, A, hist>>

-----------------------------------------------------------------------------

NoGaussian == [mean |-> 0, std |-> 0]

\* the two calls
Calls == {1, 2}

\* a frame before its call has begun, a result before the call has returned
NoFrame == [iter |-> 0, z_cur |-> 0, z_next |-> 0]
NoResult == [z0 |-> 0, A |-> 0]

\* no second caller: the notebook runs alone
NoCalls ==
    /\ cargs = [c \in Calls |-> [z_init |-> 0, max_iter |-> 0, tol |-> DefaultTol]]
    /\ frames = [c \in Calls |-> NoFrame]
    /\ cpc = [c \in Calls |-> "off"]
    /\ cres = [c \in Calls |-> NoResult]
    /\ csteps = [c \in Calls |-> 0]

Init ==
    /\ NoCalls
    /\ z_init \in ZInits
    /\ max_iter \in MaxIters
    /\ tol \in Tols
    /\ pc = "call"
    /\ iter = 0 /\ z_cur = 0 /\ z_next = 0 /\ y = 0 /\ der_y = 0
    /\ z0 = 0 /\ A = 0 /\ q_z = NoGaussian
    /\ hist = << >>

Next ==
    /\ FindModeEnter \/ LoopBody \/ FindModeReturn \/ EvalHessian \/ Approximate
    /\ UNCHANGED cvars

Spec == Init /\ [][Next]_vars

\* the notebook runs each cell to its end: no step that can be taken waits forever
FairSpec == Spec /\ WF_vars(Next)

-----------------------------------------------------------------------------
(* Two independent calls of findMode and getHessian, interleaved.  A step is *)
(* one pass of the loop: the locals of a call are read and written by that   *)
(* call alone, so a finer interleaving shows nothing more.                   *)

\* the arguments the two callers pass
CZInits == {-200, 0, DMax}
CMaxIters == {0, 2, MaxIter}
CTols == {DefaultTol, 50}

\* the locals are kept in one place for all calls (module-level variables)
FrameShared(c) == 1

\* the frame that holds the locals iter, z_cur, z_next of call c: Python makes
\* a new one for each call of a function
Frame(c) == c

\* call c counts one more step
Stepped(c) == csteps' = [csteps EXCEPT ![c] = @ + 1]

\* iter = 0; z_next = np.finfo('d').max; z_cur = z_init
CallEnter(c) ==
    /\ cpc[c] = "call"
    /\ frames' = [frames EXCEPT ![Frame(c)] =
                     [iter |-> 0, z_cur |-> cargs[c].z_init, z_next |-> InitialZNext]]
    /\ cpc' = [cpc EXCEPT ![c] = "while"]
    /\ Stepped(c)
    /\ UNCHANGED <<cargs, cres>>

\* one pass of the while loop of call c
CallBody(c) ==
    LET f == frames[Frame(c)]
        zc == CurAt(f.iter, f.z_cur, f.z_next)
    IN  /\ cpc[c] = "while"
        /\ LoopGuard(f.iter, cargs[c].max_iter, f.z_next, f.z_cur, cargs[c].tol)
        /\ frames' = [frames EXCEPT ![Frame(c)] =
                         [iter |-> f.iter + 1, z_cur |-> zc,
                          z_next |-> NewtonUpdate(zc, Y(zc), DerY(zc))]]
        /\ Stepped(c)
        /\ UNCHANGED <<cargs, cpc, cres>>

\* the loop test of call c fails: return z_next
CallReturn(c) ==
    LET f == frames[Frame(c)]
    IN  /\ cpc[c] = "while"
        /\ ~LoopGuard(f.iter, cargs[c].max_iter, f.z_next, f.z_cur, cargs[c].tol)
        /\ cres' = [cres EXCEPT ![c].z0 = ReturnValue(f.z_cur, f.z_next)]
        /\ cpc' = [cpc EXCEPT ![c] = "returned"]
        /\ Stepped(c)
        /\ UNCHANGED <<cargs, frames>>

\* the caller of call c evaluates getHessian at the value returned
CallHessian(c) ==
    /\ cpc[c] = "returned"
    /\ cres' = [cres EXCEPT ![c].A = getHessian(cres[c].z0)]
    /\ cpc' = [cpc EXCEPT ![c] = "done"]
    /\ Stepped(c)
    /\ UNCHANGED <<cargs, frames>>

InitTwo ==
    /\ cargs \in [Calls -> [z_init : CZInits, max_iter : CMaxIters, tol : CTols]]
    /\ frames = [c \in Calls |-> NoFrame]
    /\ cpc = [c \in Calls |-> "call"]
    /\ cres = [c \in Calls |-> NoResult]
    /\ csteps = [c \in Calls |-> 0]
    /\ z_init = 0 /\ max_iter = 0 /\ tol = DefaultTol
    /\ pc = "off"
    /\ iter = 0 /\ z_cur = 0 /\ z_next = 0 /\ y = 0 /\ der_y = 0
    /\ z0 = 0 /\ A = 0 /\ q_z = NoGaussian
    /\ hist = << >>

NextTwo ==
    /\ \E c \in Calls : CallEnter(c) \/ CallBody(c) \/ CallReturn(c) \/ CallHessian(c)
    /\ UNCHANGED svars

SpecTwo == InitTwo /\ [][NextTwo]_vars

-----------------------------------------------------------------------------
(* findMode as a function of its arguments: the loop run to its end *)

\* one Newton update from z
Newton(z) == NewtonUpdate(z, Y(z), DerY(z))

RECURSIVE RunLoop(_, _, _, _, _)
\* the loop from the state (i, zc, zn): the value returned and the passes made
RunLoop(i, zc, zn, m, t) ==
    IF LoopGuard(i, m, zn, zc, t)
    THEN LET c == CurAt(i, zc, zn)
         IN  RunLoop(i + 1, c, NewtonUpdate(c, Y(c), DerY(c)), m, t)
    ELSE [value |-> ReturnValue(zc, zn), iters |-> i]

findMode(z, m, t) == RunLoop(0, z, InitialZNext, m, t)

RECURSIVE IteratesFrom(_, _, _, _, _)
\* the values the loop assigns to z_next from the state (i, zc, zn) on, in order
IteratesFrom(i, zc, zn, m, t) ==
    IF LoopGuard(i, m, zn, zc, t)
    THEN LET c == CurAt(i, zc, zn)
             n == NewtonUpdate(c, Y(c), DerY(c))
         IN  <<n>> \o IteratesFrom(i + 1, c, n, m, t)
    ELSE << >>

\* the updates findMode(z, m, t) makes
Iterates(z, m, t) == IteratesFrom(0, z, InitialZNext, m, t)

RECURSIVE TraceFrom(_, _, _, _, _)
\* the states (iter, z_cur, z_next) the loop goes through from (i, zc, zn) on:
\* the state at each evaluation of the loop test, in order
TraceFrom(i, zc, zn, m, t) ==
    <<[iter |-> i, z_cur |-> zc, z_next |-> zn]>>
        \o (IF LoopGuard(i, m, zn, zc, t)
            THEN LET c == CurAt(i, zc, zn)
                 IN  TraceFrom(i + 1, c, NewtonUpdate(c, Y(c), DerY(c)), m, t)
            ELSE << >>)

\* the states findMode(z, m, t) goes through, from its three assignments on
Trace(z, m, t) == TraceFrom(0, z, InitialZNext, m, t)

-----------------------------------------------------------------------------
(* Properties *)

\* findMode has returned
Returned == pc \in {"returned", "hessian", "approx"}

\* the iterate the k-th update started from: z_init, then the previous update's result
IterateBefore(k) == IF k = 1 THEN z_init ELSE hist[k - 1]

\* the size of the k-th Newton step, |z_k - z_{k-1}|
StepSize(k) == Abs(hist[k] - IterateBefore(k))

\* C1: for max_iter >= 1, findMode returns the last computed iterate, it stops
\* only when the last two iterates are within tol or max_iter updates are done,
\* and no earlier pair of consecutive iterates was within tol.
C1_StopsAtFirstK ==
    (Returned /\ max_iter >= 1) =>
        /\ Len(hist) >= 1
        /\ z0 = hist[Len(hist)]
        /\ (StepSize(Len(hist)) <= tol \/ Len(hist) >= max_iter)
        /\ \A k \in 1 .. (Len(hist) - 1) : StepSize(k) > tol /\ k < max_iter

\* C2: with max_iter = 0 findMode makes no update and returns z_init.
C2_ZeroMaxIterReturnsZInit ==
    (Returned /\ max_iter = 0) => (Len(hist) = 0 /\ z0 = z_init)

\* C3: under FairSpec every call of findMode returns, and at no time have more
\* than max_iter Newton updates been made (iter counts them).
C3_TerminatesWithinCap ==
    /\ [](iter <= max_iter /\ Len(hist) = iter)
    /\ <>Returned

\* a call that ran into the cap: max_iter >= 1 updates, the last step above tol
C3_Witness ==
    /\ Returned
    /\ max_iter >= 1
    /\ iter = max_iter
    /\ StepSize(iter) > tol

\* the loop ended with the tolerance test met, |z_next - z_cur| <= tol
ToleranceMet == Abs(z_next - z_cur) <= tol

\* C7 (as claimed): findMode started again at any value r it returned makes
\* exactly one pass and returns a value within tol of r.
C7_RestartOnePass ==
    Returned =>
        LET again == findMode(z0, max_iter, tol)
        IN  again.iters = 1 /\ Abs(again.value - z0) <= tol

\* C7 (amended): if findMode returned r with the tolerance test met, findMode
\* started again at r makes at most one pass and returns a value within tol of r.
C7_RestartAfterConvergence ==
    (Returned /\ ToleranceMet) =>
        LET again == findMode(z0, max_iter, tol)
        IN  again.iters <= 1 /\ Abs(again.value - z0) <= tol

\* a converged call whose restart makes its one pass and moves
C7_Witness ==
    /\ Returned
    /\ ToleranceMet
    /\ iter >= 2
    /\ findMode(z0, max_iter, tol).iters = 1
    /\ findMode(z0, max_iter, tol).value # z0

\* C8: for max_iter >= 1, if tol is larger than the first Newton step
\* |z_1 - z_init|, findMode returns after exactly one update, returning z_1.
C8_LargeTolOneIteration ==
    (Returned /\ max_iter >= 1 /\ tol > Abs(Newton(z_init) - z_init)) =>
        (iter = 1 /\ z0 = Newton(z_init))

\* C9: every update is the Newton update of the iterate the previous update
\* produced (z_init for the first), with y and der_y evaluated at that iterate.
C9_NewtonAtPreviousIterate ==
    /\ \A k \in 1 .. Len(hist) :
          hist[k] = Sat(IterateBefore(k)
                        - RDiv(Y(IterateBefore(k)) * One, DerY(IterateBefore(k))))
    /\ iter >= 1 =>
          /\ z_cur = IterateBefore(iter)
          /\ y = Y(IterateBefore(iter))
          /\ der_y = DerY(IterateBefore(iter))
          /\ z_next = hist[iter]

\* three updates made, each from a different iterate
C9_Witness ==
    /\ Len(hist) >= 3
    /\ z_init # hist[1]
    /\ hist[1] # hist[2]
    /\ hist[2] # hist[3]

\* C10: the loop ends only by the cap or by the tolerance test; when the cap is
\* reached with the tolerance not met, the call returns like any other, handing
\* back the last computed iterate, and the caller goes on to use it.
C10_SilentReturnAtCap ==
    /\ Returned => (iter >= max_iter \/ ToleranceMet)
    /\ (Returned /\ iter >= 1 /\ iter >= max_iter /\ ~ToleranceMet) =>
          z0 = hist[Len(hist)]
    /\ (pc = "approx" /\ iter >= 1 /\ iter >= max_iter /\ ~ToleranceMet) =>
          q_z.mean = hist[Len(hist)]

\* a call stopped by the cap with the iterates still moving, its value in use
C10_Witness ==
    /\ pc = "approx"
    /\ iter = max_iter
    /\ iter >= 2
    /\ ~ToleranceMet
    /\ q_z.mean = z_next

\* the points the model evaluates functions of z at: the initial guesses and
\* every iterate computed so far
PointsSeen == ZInits \cup {hist[k] : k \in 1 .. Len(hist)}

\* C11: getHessian(z) lies in [1, 101] at every point seen, and so does the
\* precision A the notebook computes: A <= 0 is never reached.
C11_PrecisionInRange ==
    /\ \A z \in PointsSeen :
          getHessian(z) >= One /\ getHessian(z) <= 101 * One
    /\ pc \in {"hessian", "approx"} => (A >= One /\ A <= 101 * One)

\* the precision has been evaluated at a returned iterate, strictly inside (1, 101),
\* and the extremes 1 and 101 are taken at points seen
C11_Witness ==
    /\ pc = "hessian"
    /\ iter >= 2
    /\ A > One /\ A < 101 * One
    /\ \E z \in PointsSeen : getHessian(z) = One
    /\ \E z \in PointsSeen : getHessian(z) = 101 * One

\* C12: the Gaussian's mean is the value findMode returned for the call's
\* arguments, A is the precision at that same value, and the Gaussian's
\* variance std^2 is 1/A (std^2 * A = 1 to within the rounding of std, 2%).
C12_GaussianFromModeAndPrecision ==
    pc = "approx" =>
        /\ q_z.mean = z0
        /\ q_z.mean = findMode(z_init, max_iter, tol).value
        /\ A = getHessian(q_z.mean)
        /\ Abs(q_z.std * q_z.std * A - One * One * One) <= (One * One * One) \div 50

\* a Gaussian built at a computed iterate whose precision is not 1
C12_Witness ==
    /\ pc = "approx"
    /\ iter >= 2
    /\ q_z.mean = hist[iter]
    /\ A > One
    /\ q_z.std < One

\* the notebook's call z0 = findMode(0), with the default max_iter and tol
WorkedExample == z_init = 0 /\ max_iter = DefaultMaxIter /\ tol = DefaultTol

PcOrder(p) ==
    CASE p = "call" -> 0
      [] p = "while" -> 1
      [] p = "returned" -> 2
      [] p = "hessian" -> 3
      [] p = "approx" -> 4

\* C14: under FairSpec the notebook runs findMode to its end, then evaluates
\* the precision once, at the value findMode returned, then builds the Gaussian
\* from that value and that precision: until findMode has returned neither A
\* nor q_z is assigned, A is assigned only by the step that follows the return,
\* q_z only by the step after that, no step goes back, and the end is reached.
C14_PipelineOrder ==
    /\ [](/\ pc \in {"call", "while", "returned"} => (A = 0 /\ q_z = NoGaussian)
          /\ pc = "hessian" =>
                /\ q_z = NoGaussian
                /\ z0 = findMode(z_init, max_iter, tol).value
                /\ A = getHessian(z0)
          /\ pc = "approx" =>
                /\ A = getHessian(z0)
                /\ q_z = [mean |-> z0, std |-> StdDev(A)])
    /\ [][/\ PcOrder(pc') >= PcOrder(pc)
          /\ A' # A => (pc = "returned" /\ pc' = "hessian")
          /\ q_z' # q_z => (pc = "hessian" /\ pc' = "approx")
          /\ Returned => (z0' = z0 /\ hist' = hist)]_vars
    /\ <>(pc = "approx")

\* the whole pipeline has run after a loop of several passes, the precision
\* taken at a value that is not the initial guess
C14_Witness ==
    /\ pc = "approx"
    /\ iter >= 2
    /\ z0 # z_init
    /\ A = getHessian(z0)
    /\ A # getHessian(z_init)
    /\ q_z.mean = z0

\* what call c returns when it runs alone
AloneValue(c) == findMode(cargs[c].z_init, cargs[c].max_iter, cargs[c].tol).value

\* C15: under SpecTwo, in every interleaving of two calls each call returns
\* what it returns when run alone, getHessian gives the precision of that value,
\* and a step of one call changes nothing of the other: not its locals, not
\* its control point, not its result.
C15_CallsIndependent ==
    /\ [](\A c \in Calls :
            /\ cpc[c] \in {"returned", "done"} => cres[c].z0 = AloneValue(c)
            /\ cpc[c] = "done" => cres[c].A = getHessian(AloneValue(c)))
    /\ [][\A c \in Calls :
            csteps'[c] = csteps[c] =>
                (frames'[c] = frames[c] /\ cpc'[c] = cpc[c] /\ cres'[c] = cres[c])]_vars

\* the first call has returned from a loop of several passes while the second
\* is in the middle of its own loop, at another iterate
C15_Witness ==
    /\ cpc[1] = "returned"
    /\ frames[1].iter >= 2
    /\ cres[1].z0 = AloneValue(1)
    /\ cpc[2] = "while"
    /\ frames[2].iter >= 1
    /\ frames[2].z_next # cres[1].z0

\* C16: findMode takes no account of the curvature: while it runs the precision
\* A is not evaluated, it can return exactly when the loop test fails (cap
\* reached or tolerance met), and what it returns is z_next as it stands; A is
\* first evaluated by the caller, after the return.
C16_NoCurvatureTestInFindMode ==
    /\ [](pc \in {"call", "while"} => A = 0)
    /\ [](pc = "while" =>
            (ENABLED FindModeReturn <=> (iter >= max_iter \/ ToleranceMet)))
    /\ [][(pc = "while" /\ pc' = "returned") => (z0' = z_next /\ A' = 0)]_vars
    /\ [][A' # A => (pc = "returned" /\ A' = getHessian(z0))]_vars

\* findMode has returned an iterate that is not even a root of y, stopped by the
\* cap, and no curvature has been evaluated yet
C16_Witness ==
    /\ pc = "returned"
    /\ iter >= 1
    /\ ~ToleranceMet
    /\ Y(z0) # 0
    /\ A = 0

\* C17: the denominator der_y of an update made at z_cur is getHessian(z_cur),
\* the two expressions agree at every point seen, and der_y >= 1 after every
\* update: no update divides by zero.
C17_DenominatorIsHessian ==
    /\ \A z \in PointsSeen : DerY(z) = getHessian(z)
    /\ iter >= 1 =>
          /\ der_y = getHessian(z_cur)
          /\ der_y >= One
          /\ z_next = Sat(z_cur - RDiv(y * One, getHessian(z_cur)))

\* an update has been made with a denominator well above 1
C17_Witness ==
    /\ pc = "while"
    /\ iter >= 2
    /\ der_y > 2 * One
    /\ der_y = getHessian(z_cur)

\* C18: always 0 <= iter <= max_iter and iter is the number of updates made;
\* a step either leaves iter alone or is one loop pass, which adds exactly 1 to
\* iter and makes exactly one update; and a call that returns with
\* 1 <= iter < max_iter has its last two iterates within tol.
C18_IterCountsUpdates ==
    /\ [](/\ 0 <= iter /\ iter <= max_iter
          /\ iter = Len(hist)
          /\ (Returned /\ iter >= 1 /\ iter < max_iter) =>
                (Abs(z_next - z_cur) <= tol /\ StepSize(iter) <= tol))
    /\ [][\/ (iter' = iter /\ hist' = hist)
          \/ /\ pc = "while" /\ pc' = "while"
             /\ iter' = iter + 1
             /\ Len(hist') = Len(hist) + 1
             /\ z_next' = hist'[iter']]_vars

\* a call that returned below the cap after several updates
C18_Witness ==
    /\ Returned
    /\ iter >= 2
    /\ iter < max_iter
    /\ StepSize(iter) <= tol

\* C19: z_next starts as the sentinel, the largest finite value; findMode
\* returns the sentinel exactly when the loop body never ran; and whenever
\* max_iter >= 1 and tol < |sentinel - z_init| at least one update is made and
\* the value returned is the last update's result, not the sentinel.
C19_SentinelOnlyWithoutUpdates ==
    /\ (pc = "while" /\ iter = 0) => z_next = DMax
    /\ Returned => (z0 = DMax <=> iter = 0)
    /\ (Returned /\ max_iter >= 1 /\ tol < Abs(DMax - z_init)) =>
          (iter >= 1 /\ z0 = hist[iter] /\ z0 # DMax)

\* a call with max_iter >= 1 and tol below |sentinel - z_init| that made
\* updates and returned the last one
C19_Witness ==
    /\ Returned
    /\ max_iter >= 1
    /\ tol < Abs(DMax - z_init)
    /\ iter >= 2
    /\ z0 = hist[iter]
    /\ z0 # DMax

\* a call whose tol kept the loop from starting although max_iter >= 1
C19_WitnessNoUpdate ==
    /\ Returned
    /\ max_iter >= 1
    /\ z_init # DMax
    /\ iter = 0
    /\ z0 = DMax

\* C20: if a call stopped with the tolerance met after j = iter updates, then
\* for every cap m2 >= j (up to one above the default) findMode with cap m2
\* makes the same j updates and returns the same value; if it stopped at the
\* cap with the tolerance not met, findMode with cap max_iter + 1 makes the same
\* updates followed by exactly one more, the Newton update of the last iterate.
C20_RaisingTheCap ==
    Returned =>
        /\ ToleranceMet =>
              \A m2 \in iter .. (DefaultMaxIter + 1) :
                  /\ Iterates(z_init, m2, tol) = hist
                  /\ findMode(z_init, m2, tol) = [value |-> z0, iters |-> iter]
        /\ ~ToleranceMet =>
              /\ iter = max_iter
              /\ Iterates(z_init, max_iter + 1, tol)
                    = Append(hist, Newton(IF iter = 0 THEN z_init ELSE hist[iter]))
              /\ findMode(z_init, max_iter + 1, tol).iters = max_iter + 1

\* a call that converged below its cap after several updates
C20_Witness ==
    /\ Returned
    /\ ToleranceMet
    /\ iter >= 2
    /\ iter < max_iter
    /\ z0 = hist[iter]

\* a call stopped by the cap alone after several updates, whose next update moves
C20_WitnessCap ==
    /\ Returned
    /\ ~ToleranceMet
    /\ iter >= 2
    /\ Newton(hist[iter]) # hist[iter]

\* the states call c goes through by its arguments alone
TraceOf(c) == Trace(cargs[c].z_init, cargs[c].max_iter, cargs[c].tol)

\* C21: under SpecTwo findMode is deterministic: at every step a call is in the
\* state (iter, z_cur, z_next) that its arguments (z_init, max_iter, tol) and
\* the number of steps it has taken determine, and it returns the z_next of the
\* last of these states, whatever the other call does; so two calls with the
\* same arguments that have taken the same number of steps are in the same
\* state, and they return the same value; and in no state can a call both go
\* through the loop once more and return.
C21_Deterministic ==
    /\ [](\A c \in Calls :
            /\ cpc[c] = "while" =>
                  /\ csteps[c] <= Len(TraceOf(c))
                  /\ frames[c] = TraceOf(c)[csteps[c]]
            /\ cpc[c] \in {"returned", "done"} =>
                  /\ frames[c] = TraceOf(c)[Len(TraceOf(c))]
                  /\ csteps[c] > Len(TraceOf(c))
                  /\ cres[c].z0 = TraceOf(c)[Len(TraceOf(c))].z_next)
    /\ [](\A c, d \in Calls :
            cargs[c] = cargs[d] =>
                /\ csteps[c] = csteps[d] =>
                      (frames[c] = frames[d] /\ cpc[c] = cpc[d] /\ cres[c] = cres[d])
                /\ (cpc[c] \in {"returned", "done"} /\ cpc[d] \in {"returned", "done"}) =>
                      (frames[c] = frames[d] /\ cres[c].z0 = cres[d].z0))
    /\ [](\A c \in Calls : ~(ENABLED CallBody(c) /\ ENABLED CallReturn(c)))

\* two calls with the same arguments, run at different speeds: the first has
\* returned from a loop of several passes, the second has made one pass and is
\* where the first was after its first pass
C21_Witness ==
    /\ cargs[1] = cargs[2]
    /\ cpc[1] = "returned"
    /\ frames[1].iter >= 2
    /\ cres[1].z0 # DMax
    /\ cpc[2] = "while"
    /\ frames[2].iter = 1
    /\ frames[2] = TraceOf(1)[2]
    /\ frames[2] # frames[1]

=============================================================================
